---------------------------- MODULE Spec2Model ----------------------------
(***************************************************************************)
(* Model of src/app.py: the embedded-browser YouTube downloader.           *)
(*                                                                         *)
(*   - clean_err / is_youtube_watch : the two pure helpers (lines 19-25)   *)
(*   - Downloader                   : the QThread worker (lines 34-131)    *)
(*   - Main                         : the window and its slots (134-325)   *)
(*                                                                         *)
(* A Python str is a sequence of one-character strings; the escape         *)
(* character \x1b is the single character ESC.  The yt_dlp client is a     *)
(* black box: during one extract_info call it may invoke the progress hook *)
(* any number of times and then returns or raises.  Signals emitted by the *)
(* worker thread reach the slots of Main through the main thread's event   *)
(* queue (Qt queued connections, first in first out).                      *)
(***************************************************************************)
EXTENDS Integers, Sequences, FiniteSets, TLC

(***************************************************************************)
(* Bounds of the model.                                                    *)
(***************************************************************************)
\* Downloader objects constructed in one behaviour.
MaxJobs == 2
\* Progress-hook invocations the client makes during one job.
MaxHooks == 1
\* Length of the strings clean_err is applied to in SpecClean.
MaxLen == 6

(***************************************************************************)
(* Characters and strings.                                                 *)
(***************************************************************************)
ESC == "\\x1b"

Digits == {"0", "1", "2", "3", "4", "5", "6", "7", "8", "9"}

\* Python's None, for the optional numeric fields of the hook's dictionary.
None == -1

\* Python: sub in s
Contains(s, sub) ==
    \E i \in 0..(Len(s) - Len(sub)) :
        \A k \in 1..Len(sub) : s[i + k] = sub[k]

CancelMsg ==
    <<"C","a","n","c","e","l","a","d","o"," ","p","o","r"," ","e","l"," ",
      "u","s","u","a","r","i","o">>
\* "No fue posible descargar el vídeo." (the accent is left out of the model).
GenericMsg ==
    <<"N","o"," ","f","u","e"," ","p","o","s","i","b","l","e"," ","d","e",
      "s","c","a","r","g","a","r"," ","e","l"," ","v","i","d","e","o",".">>
Sub403 ==
    <<"4","0","3">>
SubFormat ==
    <<"R","e","q","u","e","s","t","e","d"," ","f","o","r","m","a","t"," ",
      "i","s"," ","n","o","t"," ","a","v","a","i","l","a","b","l","e">>
SubWatch ==
    <<"y","o","u","t","u","b","e",".","c","o","m","/","w","a","t","c","h">>
SubShort ==
    <<"y","o","u","t","u",".","b","e","/">>
HomeUrl ==
    <<"h","t","t","p","s",":","/","/","w","w","w",".","y","o","u","t","u",
      "b","e",".","c","o","m","/">>
ResultsPrefix ==
    <<"h","t","t","p","s",":","/","/","w","w","w",".","y","o","u","t","u",
      "b","e",".","c","o","m","/","r","e","s","u","l","t","s","?","s","e",
      "a","r","c","h","_","q","u","e","r","y","=">>
NoneText ==
    <<"N","o","n","e">>

(***************************************************************************)
(* clean_err (lines 19-22).  A Python value is [type, val]; only a str has *)
(* characters.  The outcome of a call is [raised, val].                    *)
(***************************************************************************)
PyStr(s) == [type |-> "str", val |-> s]
PyNone == [type |-> "NoneType", val |-> <<>>]

Returned(v) == [raised |-> FALSE, val |-> v]
Raised == [raised |-> TRUE, val |-> <<>>]

\* str(msg)
py_str(msg) == IF msg.type = "str" THEN msg.val ELSE NoneText

\* The index of the last character of the match of \x1b\[[0-9;]*m that
\* starts at i, or 0 when none starts there.  The class [0-9;] excludes "m",
\* so the greedy star never has to give a character back.
RECURSIVE SkipParams(_, _)
SkipParams(s, j) ==
    IF j <= Len(s) /\ s[j] \in Digits \cup {";"} THEN SkipParams(s, j + 1) ELSE j

MatchEnd(s, i) ==
    IF i + 1 <= Len(s) /\ s[i] = ESC /\ s[i + 1] = "["
    THEN LET j == SkipParams(s, i + 2)
         IN  IF j <= Len(s) /\ s[j] = "m" THEN j ELSE 0
    ELSE 0

\* A substitution that removes the first match only.
SubFirst(s, i) ==
    IF \E k \in i..Len(s) : MatchEnd(s, k) > 0
    THEN LET k == CHOOSE k \in i..Len(s) :
                      MatchEnd(s, k) > 0 /\ \A h \in i..(k - 1) : MatchEnd(s, h) = 0
         IN  SubSeq(s, i, k - 1) \o SubSeq(s, MatchEnd(s, k) + 1, Len(s))
    ELSE SubSeq(s, i, Len(s))

\* re.sub with an empty replacement: one scan, left to right, the matches
\* removed, the text between them kept; the result is not scanned again.
RECURSIVE SubFrom(_, _)
SubFrom(s, i) ==
    IF i > Len(s) THEN <<>>
    ELSE LET e == MatchEnd(s, i)
         IN  IF e > 0 THEN SubFrom(s, e + 1) ELSE <<s[i]>> \o SubFrom(s, i + 1)

\* ANSI_RE.sub("", msg): a TypeError for anything that is not a str.
ANSI_RE_sub(msg) ==
    IF msg.type = "str" THEN Returned(SubFrom(msg.val, 1)) ELSE Raised

clean_err(msg) ==
    LET r == ANSI_RE_sub(msg)
    IN  IF r.raised THEN Returned(py_str(msg)) ELSE r

\* Whether a str holds a colour-escape sequence.
HasEscape(s) == \E i \in 1..Len(s) : MatchEnd(s, i) > 0

(***************************************************************************)
(* is_youtube_watch (lines 24-25).                                         *)
(***************************************************************************)
is_youtube_watch(url) == Contains(url, SubWatch) \/ Contains(url, SubShort)

(***************************************************************************)
(* The environment: pages the user can browse to, titles, search texts,    *)
(* folders, and what the yt_dlp client can report and raise.               *)
(***************************************************************************)
WatchUrl ==
    <<"h","t","t","p","s",":","/","/","w","w","w",".","y","o","u","t","u",
      "b","e",".","c","o","m","/","w","a","t","c","h","?","v","=","a">>
ShortUrl ==
    <<"h","t","t","p","s",":","/","/","y","o","u","t","u",".","b","e","/",
      "a">>

Urls == {WatchUrl, ShortUrl}
Titles == {<<"S","o","n","g">>}
Queries == {<<>>, <<" ">>, <<" ","a"," ","b">>}

\* Path.home() / "Desktop" / "Mi Música" (line 141) and a folder the user picks.
DefaultDir == <<"~", "/", "Desktop", "/", "Mi Musica">>
OtherDir == <<"/", "music">>
\* QFileDialog.getExistingDirectory: "" when the dialog is cancelled.
DirChoices == {<<>>, DefaultDir, OtherDir}

ErrColor403 ==
    <<ESC,"[","3","1","m","E","r","r","o","r",":"," ","4","0","3",ESC,"[",
      "0","m">>
Plain403 ==
    <<"E","r","r","o","r",":"," ","4","0","3">>
ErrFormat ==
    <<"R","e","q","u","e","s","t","e","d"," ","f","o","r","m","a","t"," ",
      "i","s"," ","n","o","t"," ","a","v","a","i","l","a","b","l","e">>
ErrDisk ==
    <<"d","i","s","k"," ","f","u","l","l">>
ErrNested ==
    <<ESC,"[",ESC,"[","0","m","3","1","m","b","a","d">>
ErrMkdir ==
    <<"P","e","r","m","i","s","s","i","o","n"," ","d","e","n","i","e","d">>

\* str(ex) of the exceptions extract_info can raise: those of a forbidden
\* request or an unavailable format, and the others.
RetryableErrors == {ErrColor403, ErrFormat}
OtherErrors == {ErrDisk, ErrNested}
ClientErrors == RetryableErrors \cup OtherErrors
\* str(ex) of the exceptions Path.mkdir can raise.
MkdirErrors == {ErrMkdir}

\* The dictionaries the client passes to the progress hook: a download with
\* an exact total, with an estimated total only (which the bytes received
\* can exceed), with no total at all; the end of the download phase; and a
\* status the hook ignores.  0 and None are both "not known".
HookDict(status, total, estimate, got, speed, eta) ==
    [status |-> status, total_bytes |-> total, total_bytes_estimate |-> estimate,
     downloaded_bytes |-> got, speed |-> speed, eta |-> eta]

HookInputs ==
    {HookDict("downloading", 2, e, g, 2048, 5) : e \in {None, 1}, g \in {None, 1}}
    \cup {HookDict("downloading", t, 1, g, None, 0) : t \in {None, 0}, g \in {1, 2}}
    \cup {HookDict("downloading", None, e, 1, 0, 5) : e \in {None, 0}}
    \cup {HookDict("finished", 2, None, 2, None, None),
          HookDict("error", None, None, None, None, None)}

\* The extension of the name prepare_filename resolves, and the extensions
\* with which a file of that base name can exist on disk afterwards.
ClientExts == {"webm", "mp4"}
DiskExts == {"mp3", "m4a", "webm", "mp4"}

(***************************************************************************)
(* Signals of Downloader (lines 35-37) and QThread.finished.               *)
(***************************************************************************)
Progress(p, txt) == [sig |-> "progress", pct |-> p, text |-> txt]
Done(path) == [sig |-> "done", pct |-> <<0, 1>>, text |-> path]
Failed(msg) == [sig |-> "failed", pct |-> <<0, 1>>, text |-> msg]
Finished == [sig |-> "finished", pct |-> <<0, 1>>, text |-> <<>>]

(***************************************************************************)
(* Numbers.  A float is the exact fraction <<numerator, denominator>> in   *)
(* lowest terms.                                                           *)
(***************************************************************************)
RECURSIVE Gcd(_, _)
Gcd(a, b) == IF b = 0 THEN a ELSE Gcd(b, a % b)

Frac(n, d) == LET g == Gcd(n, d) IN <<n \div g, d \div g>>

\* int(p) for p >= 0
py_int(p) == p[1] \div p[2]

\* f"{x:.1f}" for x >= 0: the tenths, rounded
Fmt1(p) ==
    LET t == (20 * p[1] + p[2]) \div (2 * p[2])
    IN  <<ToString(t \div 10), ".", ToString(t % 10)>>

\* x or 0
Or0(x) == IF x = None THEN 0 ELSE x

(***************************************************************************)
(* Downloader (lines 34-131).                                              *)
(***************************************************************************)
format_candidates ==
    <<"bestvideo[ext=mp4]+bestaudio[ext=m4a]/best[ext=mp4]",
      "bv[height<=1080][ext=mp4]+ba[ext=m4a]/b[ext=mp4]",
      "bv*+ba/b",
      "best">>

AudioFormat == "bestaudio/best"

\* Downloader.__init__ (lines 39-44).  pc is the position of the thread:
\* "start" (started, run not yet entered), "incall" (inside extract_info),
\* "returned" (run has returned).  fmt is the index of the candidate in use.
\* Three fields record the history of the job, in order: calls, the formats
\* passed to extract_info; results, how each call ended (PyNone: it
\* returned, PyStr(text): it raised); emitted, the signals emitted.
NewDownloader(id, url, outdir, kind) ==
    [id |-> id, url |-> url, outdir |-> outdir, kind |-> kind, stop |-> FALSE,
     pc |-> "start", fmt |-> 0, last |-> PyNone, hooks |-> 0,
     calls |-> <<>>, results |-> <<>>, emitted |-> <<>>]

NoDownloader ==
    [id |-> 0, url |-> <<>>, outdir |-> <<>>, kind |-> "none", stop |-> FALSE,
     pc |-> "none", fmt |-> 0, last |-> PyNone, hooks |-> 0,
     calls |-> <<>>, results |-> <<>>, emitted |-> <<>>]

\* Downloader._hook, lines 51-60: the progress signals for the dictionary d.
hook_report(d) ==
    IF d.status = "downloading" THEN
        LET total == IF Or0(d.total_bytes) # 0 THEN d.total_bytes
                     ELSE IF Or0(d.total_bytes_estimate) # 0
                          THEN d.total_bytes_estimate
                          ELSE 0
            got == Or0(d.downloaded_bytes)
            pct == IF total # 0 THEN Frac(got * 100, total) ELSE <<0, 1>>
            txt0 == Fmt1(pct) \o <<"%">>
            txt1 == IF Or0(d.speed) # 0
                    THEN txt0 \o <<" * ">> \o Fmt1(Frac(d.speed, 1024)) \o <<" KiB/s">>
                    ELSE txt0
            txt2 == IF Or0(d.eta) # 0
                    THEN txt1 \o <<" * ETA ", ToString(d.eta), "s">>
                    ELSE txt1
        IN  [raised |-> FALSE, msg |-> <<>>, evs |-> <<Progress(pct, txt2)>>]
    ELSE IF d.status = "finished" THEN
        [raised |-> FALSE, msg |-> <<>>,
         evs |-> <<Progress(<<100, 1>>, <<"Procesando...">>)>>]
    ELSE [raised |-> FALSE, msg |-> <<>>, evs |-> <<>>]

\* A hook that never looks at the flag.
hook_ignoring_stop(stop, d) == hook_report(d)

\* Downloader._hook (lines 48-60): the flag is tested first, and the hook
\* raises RuntimeError(CancelMsg) when it is set.
hook(stop, d) ==
    IF stop THEN [raised |-> TRUE, msg |-> CancelMsg, evs |-> <<>>]
    ELSE hook_report(d)

\* The template of line 86 as the client fills it: outdir / "<title> [<id>].<ext>".
Filename(outdir, ext) == outdir \o <<"/", "title [id]", ".", ext>>

\* os.path.splitext(filename)[0]: the text before the last dot.
RECURSIVE LastDot(_, _)
LastDot(p, i) == IF i = 0 \/ p[i] = "." THEN i ELSE LastDot(p, i - 1)

splitext_base(p) ==
    LET i == LastDot(p, Len(p)) IN IF i = 0 THEN p ELSE SubSeq(p, 1, i - 1)

\* os.path.exists(cand), the disk holding base.<e> for the e of exists
path_exists(cand, base, exists) == \E e \in exists : cand = base \o <<".", e>>

\* One extract_info call begins (lines 97-98, 117-118): the format passed.
BeginCall(wr, f) ==
    [wr EXCEPT !.pc = "incall", !.fmt = f,
               !.calls = Append(@, IF wr.kind = "audio" THEN AudioFormat
                                   ELSE format_candidates[f])]

\* A test that takes every error for a retryable one.
Retryable_any(text) == TRUE

\* A test that knows the forbidden request only.
Retryable_forbidden_only(text) == Contains(text, Sub403)

\* The test of line 125.
Retryable(text) == Contains(text, Sub403) \/ Contains(text, SubFormat)

\* An emit that is not followed by its return: the loop over the candidates
\* goes on.
emit_and_continue(wr, ev) ==
    IF wr.kind = "video" /\ wr.fmt >= 1 /\ wr.fmt < Len(format_candidates)
    THEN [w |-> BeginCall(wr, wr.fmt + 1), evs |-> <<ev>>]
    ELSE [w |-> [wr EXCEPT !.pc = "returned"], evs |-> <<ev>>]

\* "self.<signal>.emit(...); return" (lines 103, 104, 122, 127) and the
\* emits that end run (lines 128, 131).
emit_and_return(wr, ev) == [w |-> [wr EXCEPT !.pc = "returned"], evs |-> <<ev>>]

\* A run whose mkdir is outside the try: its exception ends the thread
\* with no signal.
run_begin_unprotected(wr, err) ==
    IF err # PyNone
    THEN [w |-> [wr EXCEPT !.pc = "returned"], evs |-> <<>>]
    ELSE [w |-> BeginCall(wr, IF wr.kind = "audio" THEN 0 ELSE 1), evs |-> <<>>]

\* run, lines 84-85 and 88/113: mkdir raised err (PyNone: it did not).
run_begin(wr, err) ==
    IF err # PyNone
    THEN emit_and_return(wr, Failed(clean_err(PyStr(py_str(err))).val))
    ELSE [w |-> BeginCall(wr, IF wr.kind = "audio" THEN 0 ELSE 1), evs |-> <<>>]

\* A resolution that looks for the intended .mp3 only.
final_path_mp3_only(kind, filename, exists) ==
    LET base == splitext_base(filename)
        mp3 == base \o <<".", "mp3">>
        mp4 == base \o <<".", "mp4">>
    IN  IF kind = "audio"
        THEN IF path_exists(mp3, base, exists) THEN mp3 ELSE filename
        ELSE IF path_exists(mp4, base, exists) THEN mp4 ELSE filename

\* The path done carries (lines 100-104 and 120-121).
final_path(kind, filename, exists) ==
    LET base == splitext_base(filename)
        mp3 == base \o <<".", "mp3">>
        m4a == base \o <<".", "m4a">>
        webm == base \o <<".", "webm">>
        mp4 == base \o <<".", "mp4">>
    IN  IF kind = "audio"
        THEN IF path_exists(mp3, base, exists) THEN mp3
             ELSE IF path_exists(m4a, base, exists) THEN m4a
             ELSE IF path_exists(webm, base, exists) THEN webm
             ELSE filename
        ELSE IF path_exists(mp4, base, exists) THEN mp4 ELSE filename

\* The audio path without the return of line 103: line 104 emits again.
run_on_return_falls_through(wr, filename, exists) ==
    [w |-> [wr EXCEPT !.pc = "returned"],
     evs |-> IF wr.kind = "audio" /\ final_path(wr.kind, filename, exists) # filename
             THEN <<Done(final_path(wr.kind, filename, exists)), Done(filename)>>
             ELSE <<Done(final_path(wr.kind, filename, exists))>>]

\* run, lines 99-104 and 119-122: extract_info returned.
run_on_return(wr, filename, exists) ==
    emit_and_return(wr, Done(final_path(wr.kind, filename, exists)))

\* A video loop that does not keep the exception (no "last = ex"): after the
\* last candidate nothing but the generic message is left to report.
run_on_exception_forgetful(wr, text) ==
    IF wr.kind = "video"
    THEN IF Retryable(text)
         THEN IF wr.fmt < Len(format_candidates)
              THEN [w |-> BeginCall(wr, wr.fmt + 1), evs |-> <<>>]
              ELSE emit_and_return(wr, Failed(clean_err(PyStr(GenericMsg)).val))
         ELSE emit_and_return(wr, Failed(clean_err(PyStr(text)).val))
    ELSE emit_and_return(wr, Failed(clean_err(PyStr(text)).val))

\* An audio path that retries like the video loop does.
run_on_exception_audio_retry(wr, text) ==
    IF Retryable(text) /\ wr.fmt < Len(format_candidates)
    THEN [w |-> BeginCall([wr EXCEPT !.last = PyStr(text)], wr.fmt + 1),
          evs |-> <<>>]
    ELSE emit_and_return([wr EXCEPT !.last = PyStr(text)],
                         Failed(clean_err(PyStr(text)).val))

\* run, lines 123-128 (video) and 130-131 (audio): extract_info raised an
\* exception whose str is text.
run_on_exception(wr, text) ==
    IF wr.kind = "video"
    THEN LET wl == [wr EXCEPT !.last = PyStr(text)]
         IN  IF Retryable(text)
             THEN IF wr.fmt < Len(format_candidates)
                  THEN [w |-> BeginCall(wl, wr.fmt + 1), evs |-> <<>>]
                  ELSE emit_and_return(wl, Failed(clean_err(
                           IF wl.last # PyNone THEN PyStr(py_str(wl.last))
                           ELSE PyStr(GenericMsg)).val))
             ELSE emit_and_return(wl, Failed(clean_err(PyStr(text)).val))
    ELSE emit_and_return(wr, Failed(clean_err(PyStr(text)).val))

(***************************************************************************)
(* State.                                                                  *)
(*   web          the page of the QWebEngineView: [url, title]             *)
(*   sel          Main.sel, the VideoSel: [url, title]                     *)
(*   download_dir Main.download_dir                                        *)
(*   dlt          Main.dlt: the id of its Downloader, 0 for None           *)
(*   ui           the widgets Main writes                                  *)
(*   w            the Downloader object Main.dlt refers to                 *)
(*   running      the ids of the threads for which isRunning() is true     *)
(*   finishing    the ids of the threads that have left run and have not   *)
(*                yet emitted QThread.finished                             *)
(*   queue        the signal deliveries posted to the main thread          *)
(*   jobs         the number of Downloader objects constructed             *)
(*   ce           SpecClean's call of clean_err                            *)
(***************************************************************************)
VARIABLES web, sel, download_dir, dlt, ui, w, running, finishing, queue, jobs, ce

mainVars == <<web, sel, download_dir, dlt, ui>>
threadVars == <<running, finishing>>
vars == <<web, sel, download_dir, dlt, ui, w, running, finishing, queue, jobs, ce>>

NoOutcome == Returned(<<>>)
CleanIdle == [pc |-> "idle", msg |-> PyNone, once |-> NoOutcome, twice |-> NoOutcome]

\* Main.__init__ and _build_ui (lines 135-227).
InitMain ==
    /\ web = [url |-> HomeUrl, title |-> <<>>]
    /\ sel = [url |-> <<>>, title |-> <<>>]
    /\ download_dir = DefaultDir
    /\ dlt = 0
    /\ ui = [curr_url_lbl |-> <<"URL actual: (ninguna)">>,
             curr_title_lbl |-> <<"Titulo: (ninguno)">>,
             use_current_btn |-> FALSE,
             cancel_btn |-> FALSE,
             progress |-> 0,
             status |-> <<>>,
             tooltip |-> DefaultDir]
    /\ w = NoDownloader
    /\ running = {}
    /\ finishing = {}
    /\ queue = <<>>
    /\ jobs = 0

Init == InitMain /\ ce = CleanIdle

\* QProgressBar.setValue with the range 0..100 of line 205: a value outside
\* the range leaves the bar as it is.
setValue(bar, v) == IF v >= 0 /\ v <= 100 THEN v ELSE bar

\* QThread.isRunning of Main.dlt
isRunning == dlt \in running

Kinds == {"audio", "video"}

(***************************************************************************)
(* Main: the slots the user drives.                                        *)
(***************************************************************************)
\* str.strip
RECURSIVE lstrip(_)
lstrip(s) == IF s # <<>> /\ Head(s) = " " THEN lstrip(Tail(s)) ELSE s
RECURSIVE rstrip(_)
rstrip(s) ==
    IF s # <<>> /\ s[Len(s)] = " " THEN rstrip(SubSeq(s, 1, Len(s) - 1)) ELSE s
strip(s) == rstrip(lstrip(s))

\* QUrl.toPercentEncoding over the letters and the space
RECURSIVE toPercentEncoding(_)
toPercentEncoding(s) ==
    IF s = <<>> THEN <<>>
    ELSE (IF Head(s) = " " THEN <<"%", "2", "0">> ELSE <<Head(s)>>)
         \o toPercentEncoding(Tail(s))

\* on_url_changed (lines 256-260), as a function of the widgets
url_changed(u, url) ==
    [u EXCEPT !.curr_url_lbl = <<"URL actual: ">> \o url,
              !.use_current_btn = is_youtube_watch(url)]

\* A navigation that takes the page shown for the selection.
on_url_changed_adopting(url) ==
    /\ url # web.url
    /\ web' = [web EXCEPT !.url = url]
    /\ ui' = url_changed(ui, url)
    /\ sel' = IF is_youtube_watch(url) THEN [url |-> url, title |-> web.title]
              ELSE sel
    /\ UNCHANGED <<download_dir, dlt, w, threadVars, queue, jobs, ce>>

\* The view moves to another page: urlChanged calls on_url_changed.
on_url_changed(url) ==
    /\ url # web.url
    /\ web' = [web EXCEPT !.url = url]
    /\ ui' = url_changed(ui, url)
    /\ UNCHANGED <<sel, download_dir, dlt, w, threadVars, queue, jobs, ce>>

\* The page's title changes: titleChanged calls on_title_changed (262-264).
on_title_changed(title) ==
    /\ title # web.title
    /\ web' = [web EXCEPT !.title = title]
    /\ ui' = [ui EXCEPT !.curr_title_lbl = <<"Titulo: ">> \o title]
    /\ UNCHANGED <<sel, download_dir, dlt, w, threadVars, queue, jobs, ce>>

\* on_search (lines 234-241); web.setUrl makes the view emit urlChanged.
on_search(text) ==
    LET q == strip(text)
        url == ResultsPrefix \o toPercentEncoding(q)
    IN  /\ q # <<>>
        /\ url # web.url
        /\ web' = [web EXCEPT !.url = url]
        /\ ui' = url_changed(ui, url)
        /\ UNCHANGED <<sel, download_dir, dlt, w, threadVars, queue, jobs, ce>>

\* A folder choice that reaches the Downloader in progress, as if the job
\* shared Main.download_dir instead of holding its own outdir.
on_choose_dir_shared(d) ==
    /\ d # <<>>
    /\ d # download_dir
    /\ download_dir' = d
    /\ ui' = [ui EXCEPT !.tooltip = d]
    /\ w' = IF w.id # 0 THEN [w EXCEPT !.outdir = d] ELSE w
    /\ UNCHANGED <<web, sel, dlt, threadVars, queue, jobs, ce>>

\* on_choose_dir (lines 243-248)
on_choose_dir(d) ==
    /\ d # <<>>
    /\ d # download_dir
    /\ download_dir' = d
    /\ ui' = [ui EXCEPT !.tooltip = d]
    /\ UNCHANGED <<web, sel, dlt, w, threadVars, queue, jobs, ce>>

\* on_use_current (lines 266-274); the button is clickable when enabled.
\* A page that is not a watch page is refused (lines 269-271).
on_use_current ==
    /\ ui.use_current_btn
    /\ IF is_youtube_watch(web.url)
       THEN /\ sel' = [url |-> web.url, title |-> web.title]
            /\ UNCHANGED <<web, download_dir, dlt, ui, w, threadVars, queue, jobs, ce>>
       ELSE UNCHANGED vars

\* A selection that is not tested: whatever url is at hand is returned.
ensure_selected_unchecked == IF sel.url # <<>> THEN sel.url ELSE web.url

\* _ensure_selected (lines 281-286): the url, or <<>> for None
ensure_selected ==
    LET url == IF sel.url # <<>> THEN sel.url ELSE web.url
    IN  IF is_youtube_watch(url) THEN url ELSE <<>>

\* A check that forgets the download in progress.
download_accepted_unguarded == ensure_selected # <<>>

\* Whether on_download goes past its two early returns (lines 290-294).
download_accepted == ensure_selected # <<>> /\ ~(dlt # 0 /\ isRunning)

\* on_download (lines 288-303)
on_download(kind) ==
    IF download_accepted
       THEN /\ jobs < MaxJobs
            /\ jobs' = jobs + 1
            /\ dlt' = jobs + 1
            /\ ui' = [ui EXCEPT !.progress = setValue(@, 0),
                                !.status = <<"Preparando descarga...">>,
                                !.cancel_btn = TRUE]
            /\ w' = NewDownloader(jobs + 1, ensure_selected, download_dir, kind)
            /\ running' = running \cup {jobs + 1}
            /\ UNCHANGED <<web, sel, download_dir, finishing, queue, ce>>
       ELSE UNCHANGED vars

\* A cancel that does not ask whether the thread is running.
on_cancel_unscoped ==
    /\ ui.cancel_btn
    /\ w' = [w EXCEPT !.stop = TRUE]
    /\ ui' = [ui EXCEPT !.status = <<"Cancelando...">>]
    /\ UNCHANGED <<web, sel, download_dir, dlt, threadVars, queue, jobs, ce>>

\* on_cancel (lines 321-325); the button is clickable when enabled.
on_cancel ==
    /\ ui.cancel_btn
    /\ IF dlt # 0 /\ isRunning
       THEN /\ w' = [w EXCEPT !.stop = TRUE]
            /\ ui' = [ui EXCEPT !.status = <<"Cancelando...">>]
            /\ UNCHANGED <<web, sel, download_dir, dlt, threadVars, queue, jobs, ce>>
       ELSE UNCHANGED vars

(***************************************************************************)
(* Main: the slots the queued signals call, in the order of the queue.     *)
(***************************************************************************)
Deliverable(sig) == queue # <<>> /\ Head(queue).ev.sig = sig

\* on_progress (lines 305-308)
on_progress ==
    /\ Deliverable("progress")
    /\ ui' = [ui EXCEPT !.progress = setValue(@, py_int(Head(queue).ev.pct)),
                        !.status = Head(queue).ev.text]
    /\ queue' = Tail(queue)
    /\ UNCHANGED <<web, sel, download_dir, dlt, w, threadVars, jobs, ce>>

\* on_done (lines 310-314)
on_done ==
    /\ Deliverable("done")
    /\ ui' = [ui EXCEPT !.progress = setValue(@, 100), !.status = <<"Completado">>]
    /\ queue' = Tail(queue)
    /\ UNCHANGED <<web, sel, download_dir, dlt, w, threadVars, jobs, ce>>

\* on_failed (lines 316-319)
on_failed ==
    /\ Deliverable("failed")
    /\ ui' = [ui EXCEPT !.status = <<>>]
    /\ queue' = Tail(queue)
    /\ UNCHANGED <<web, sel, download_dir, dlt, w, threadVars, jobs, ce>>

\* The lambda connected to QThread.finished (line 302)
on_finished ==
    /\ Deliverable("finished")
    /\ ui' = [ui EXCEPT !.cancel_btn = FALSE]
    /\ queue' = Tail(queue)
    /\ UNCHANGED <<web, sel, download_dir, dlt, w, threadVars, jobs, ce>>

(***************************************************************************)
(* The worker thread of the Downloader Main.dlt refers to.                 *)
(***************************************************************************)
\* The thread moves to r.w, having emitted r.evs.
Step(r) ==
    /\ w' = [r.w EXCEPT !.emitted = @ \o r.evs]
    /\ queue' = queue \o [i \in 1..Len(r.evs) |-> [job |-> w.id, ev |-> r.evs[i]]]
    /\ UNCHANGED <<mainVars, threadVars, jobs, ce>>

\* The call of extract_info in progress ends with res.
Ended(wr, res) == [wr EXCEPT !.results = Append(@, res)]

\* run begins: mkdir returns (err = PyNone) or raises (lines 84-85).
RunBegin(err) ==
    /\ w.pc = "start"
    /\ Step(run_begin(w, err))

\* The client calls the progress hook; an exception of the hook leaves
\* extract_info and reaches the handlers of run.
ClientHook(d) ==
    /\ w.pc = "incall"
    /\ w.hooks < MaxHooks
    /\ LET h == hook(w.stop, d)
           wh == [w EXCEPT !.hooks = @ + 1]
       IN  IF h.raised
           THEN Step(run_on_exception(Ended(wh, PyStr(h.msg)), h.msg))
           ELSE Step([w |-> wh, evs |-> h.evs])

\* extract_info returns and prepare_filename resolves the name.
ClientReturns(ext, exists) ==
    /\ w.pc = "incall"
    /\ Step(run_on_return(Ended(w, PyNone), Filename(w.outdir, ext), exists))

\* extract_info raises.
ClientRaises(text) ==
    /\ w.pc = "incall"
    /\ Step(run_on_exception(Ended(w, PyStr(text)), text))

\* QThread: run has returned, isRunning() becomes false, ...
ThreadExit ==
    /\ w.pc = "returned"
    /\ w.id \in running
    /\ running' = running \ {w.id}
    /\ finishing' = finishing \cup {w.id}
    /\ UNCHANGED <<mainVars, w, queue, jobs, ce>>

\* ... and then finished is emitted.
ThreadFinished(id) ==
    /\ id \in finishing
    /\ finishing' = finishing \ {id}
    /\ queue' = Append(queue, [job |-> id, ev |-> Finished])
    /\ UNCHANGED <<mainVars, w, running, jobs, ce>>

\* The slots, transitions of the thread and client behaviours common to the
\* two specifications of the program.
Deliveries == on_progress \/ on_done \/ on_failed \/ on_finished

ThreadSteps ==
    \/ \E err \in {PyNone} \cup {PyStr(e) : e \in MkdirErrors} : RunBegin(err)
    \/ ThreadExit
    \/ \E id \in 1..MaxJobs : ThreadFinished(id)

(***************************************************************************)
(* Spec: download sessions.  The user browses to a video page, requests up *)
(* to MaxJobs downloads and cancels; the client reports progress, returns  *)
(* or fails.                                                               *)
(***************************************************************************)
Next ==
    \/ on_url_changed(WatchUrl)
    \/ \E kind \in Kinds : on_download(kind)
    \/ on_cancel
    \/ Deliveries
    \/ ThreadSteps
    \/ ClientHook(HookDict("downloading", 2, None, 1, 2048, 5))
    \/ ClientReturns("webm", {"mp3", "mp4"})
    \/ ClientRaises(ErrDisk)

Spec == Init /\ [][Next]_vars

(***************************************************************************)
(* SpecJob: the first download of a session, with every behaviour of the   *)
(* client.                                                                 *)
(***************************************************************************)
NextJob ==
    \/ on_url_changed(WatchUrl)
    \/ \E kind \in Kinds : jobs = 0 /\ on_download(kind)
    \/ on_cancel
    \/ Deliveries
    \/ ThreadSteps
    \/ \E d \in HookInputs : ClientHook(d)
    \/ \E ext \in ClientExts, exists \in SUBSET DiskExts : ClientReturns(ext, exists)
    \/ \E text \in ClientErrors : ClientRaises(text)

SpecJob == Init /\ [][NextJob]_vars

(***************************************************************************)
(* SpecBrowse: every slot of Main around the first download of a session.  *)
(***************************************************************************)
NextBrowse ==
    \/ \E url \in Urls : on_url_changed(url)
    \/ \E title \in Titles : on_title_changed(title)
    \/ \E text \in Queries : on_search(text)
    \/ \E d \in DirChoices : on_choose_dir(d)
    \/ on_use_current
    \/ \E kind \in Kinds : jobs = 0 /\ on_download(kind)
    \/ on_cancel
    \/ Deliveries
    \/ ThreadSteps
    \/ ClientHook(HookDict("downloading", 2, None, 1, 2048, 5))
    \/ ClientReturns("webm", {"mp3", "mp4"})
    \/ \E text \in {ErrDisk, ErrFormat} : ClientRaises(text)

SpecBrowse == Init /\ [][NextBrowse]_vars

(***************************************************************************)
(* SpecClean: clean_err applied to every bounded input, then to its own    *)
(* result.                                                                 *)
(***************************************************************************)
CleanAlphabet == {ESC, "[", "1", ";", "m"}

RECURSIVE StringsUpTo(_)
StringsUpTo(n) ==
    IF n = 0 THEN {<<>>}
    ELSE LET shorter == StringsUpTo(n - 1)
         IN  shorter \cup {Append(s, c) : s \in {t \in shorter : Len(t) = n - 1},
                                          c \in CleanAlphabet}

CleanInputs ==
    {PyStr(s) : s \in StringsUpTo(MaxLen) \cup {ErrColor403, Plain403}} \cup {PyNone}

InitClean ==
    /\ InitMain
    /\ \E m \in CleanInputs :
          ce = [pc |-> "input", msg |-> m, once |-> NoOutcome, twice |-> NoOutcome]

CleanOnce ==
    /\ ce.pc = "input"
    /\ ce' = [ce EXCEPT !.pc = "once", !.once = clean_err(ce.msg)]
    /\ UNCHANGED <<mainVars, w, threadVars, queue, jobs>>

CleanTwice ==
    /\ ce.pc = "once"
    /\ ~ce.once.raised
    /\ ce' = [ce EXCEPT !.pc = "twice", !.twice = clean_err(PyStr(ce.once.val))]
    /\ UNCHANGED <<mainVars, w, threadVars, queue, jobs>>

NextClean == CleanOnce \/ CleanTwice

SpecClean == InitClean /\ [][NextClean]_vars

(***************************************************************************)
(* SpecJobFair: SpecJob with a thread that is scheduled and a client whose *)
(* every call returns or raises.                                           *)
(***************************************************************************)
RunBegins == \E err \in {PyNone} \cup {PyStr(e) : e \in MkdirErrors} : RunBegin(err)

ClientEnds ==
    \/ \E ext \in ClientExts, exists \in SUBSET DiskExts : ClientReturns(ext, exists)
    \/ \E text \in ClientErrors : ClientRaises(text)

SpecJobFair == SpecJob /\ WF_vars(RunBegins) /\ WF_vars(ClientEnds)

(***************************************************************************)
(* The claims.                                                             *)
(***************************************************************************)
Last(s) == s[Len(s)]

IsTerminal(e) == e.sig \in {"done", "failed"}

\* The outcomes a job has emitted.
Outcomes(wr) == SelectSeq(wr.emitted, IsTerminal)

IsSuffix(s, t) ==
    Len(s) <= Len(t) /\ s = SubSeq(t, Len(t) - Len(s) + 1, Len(t))

\* The signals of Downloader id that wait in the queue, in its order.
IsSignalOf(id, m) == m.job = id /\ m.ev.sig # "finished"
Pending(id) ==
    LET mine(m) == IsSignalOf(id, m)
        ms == SelectSeq(queue, mine)
    IN  [i \in 1..Len(ms) |-> ms[i].ev]

\* Every call of rs was ended by an error of RetryableErrors.
AllRetryable(rs) ==
    \A i \in 1..Len(rs) : rs[i] # PyNone /\ rs[i].val \in RetryableErrors

\* C1: a job, audio or video, emits exactly one outcome (done or failed)
\* whatever the client and mkdir do: never two, none while run is under
\* way, one when run has returned; and run, once started, returns.
OneOutcomeInv ==
    /\ Len(Outcomes(w)) <= 1
    /\ w.pc \in {"start", "incall"} => Len(Outcomes(w)) = 0
    /\ w.pc = "returned" => Len(Outcomes(w)) = 1

C1_ExactlyOneOutcome ==
    /\ []OneOutcomeInv
    /\ (w.pc = "start") ~> (w.pc = "returned" /\ Len(Outcomes(w)) = 1)

\* A job whose output directory could not be made: it failed without a call.
C1_Witness ==
    /\ w.pc = "returned"
    /\ w.calls = <<>>
    /\ w.emitted = <<Failed(ErrMkdir)>>

\* C2: once stop() has been called on a job that has not emitted its
\* outcome, the job does not emit done.
C2_NoDoneAfterStop ==
    [][(w.stop /\ w.pc \in {"start", "incall"})
         => ~(w'.pc = "returned" /\ Last(w'.emitted).sig = "done")]_vars

\* C3: a progress callback invoked with the flag set emits no progress,
\* ends the client call and the job with failed(CancelMsg) as the next and
\* last signal, and no further candidate is passed to the client.
C3_CancelAtHook ==
    [][(w.stop /\ w.pc = "incall" /\ w'.id = w.id /\ w'.hooks = w.hooks + 1)
         => /\ w'.pc = "returned"
            /\ w'.emitted = Append(w.emitted, Failed(CancelMsg))
            /\ w'.calls = w.calls]_vars

\* A video job cancelled in a callback of its second attempt.
C3_Witness ==
    /\ w.kind = "video"
    /\ w.stop
    /\ w.pc = "returned"
    /\ Len(w.calls) = 2
    /\ Last(w.results) = PyStr(CancelMsg)
    /\ Last(w.emitted) = Failed(CancelMsg)

\* C4: a video job whose first n calls all failed with a retryable error,
\* n < 4, is in its call n + 1; one whose first n - 1 calls failed so and
\* whose call n returned has made exactly n calls and emitted done.  In
\* both the calls are the first candidates, in their order, each once.
C4_FallbackSuccess ==
    (w.kind = "video" /\ w.results # <<>>) =>
        LET n == Len(w.results)
        IN  /\ (AllRetryable(w.results) /\ n < Len(format_candidates))
                 => /\ w.pc = "incall"
                    /\ w.calls = SubSeq(format_candidates, 1, n + 1)
            /\ (AllRetryable(SubSeq(w.results, 1, n - 1)) /\ w.results[n] = PyNone)
                 => /\ n <= Len(format_candidates)
                    /\ w.calls = SubSeq(format_candidates, 1, n)
                    /\ w.pc = "returned"
                    /\ Last(w.emitted).sig = "done"
                    /\ Len(Outcomes(w)) = 1

\* Three retryable failures, then the fourth candidate succeeds.
C4_Witness ==
    /\ w.kind = "video"
    /\ w.results = <<PyStr(ErrFormat), PyStr(ErrColor403), PyStr(ErrFormat), PyNone>>
    /\ w.calls = format_candidates
    /\ Last(w.emitted).sig = "done"

\* C5: when a call of a video job ends with an error that is not
\* retryable, the job has emitted failed with the cleaned text of that
\* error and has returned: the call was its last.
C5_FallbackStop ==
    (/\ w.kind = "video"
     /\ w.results # <<>>
     /\ Last(w.results) # PyNone
     /\ Last(w.results).val \notin RetryableErrors)
    => /\ w.pc = "returned"
       /\ Last(w.emitted) = Failed(clean_err(Last(w.results)).val)
       /\ Len(Outcomes(w)) = 1
       /\ Len(w.calls) = Len(w.results)
       /\ w.calls = SubSeq(format_candidates, 1, Len(w.calls))

\* "disk full" on the second candidate: the third is never tried.
C5_Witness ==
    /\ w.kind = "video"
    /\ w.results = <<PyStr(ErrColor403), PyStr(ErrDisk)>>
    /\ Len(w.calls) = 2
    /\ Last(w.emitted) = Failed(ErrDisk)

\* C6: at most one thread runs; and a download request made while one runs
\* creates no Downloader, posts nothing, and leaves Main.dlt, the progress
\* bar and the status text (and every other variable) as they are.
C6_SingleFlight ==
    /\ [](Cardinality(running) <= 1)
    /\ [][\A kind \in Kinds :
            (running # {} /\ on_download(kind)) => UNCHANGED vars]_vars

\* A request would pass the selection test, but job 1 is inside the client.
C6_Witness ==
    /\ jobs = 1
    /\ dlt = 1
    /\ running = {1}
    /\ w.pc = "incall"
    /\ ensure_selected # <<>>
    /\ ~download_accepted

\* C7: in what a job has emitted an outcome is the last signal (no
\* progress follows it, over all attempts), and the signals of the job
\* still in the queue are the last ones it emitted, in the order emitted:
\* Main has received the others, in that order.
C7_TerminalLast ==
    /\ \A i \in 1..(Len(w.emitted) - 1) : ~IsTerminal(w.emitted[i])
    /\ IsSuffix(Pending(w.id), w.emitted)

\* A video job that reported progress, fell back and completed; Main has
\* received everything.
C7_Witness ==
    /\ w.kind = "video"
    /\ Len(w.calls) >= 2
    /\ Len(w.emitted) = 2
    /\ w.emitted[1].sig = "progress"
    /\ w.emitted[2].sig = "done"
    /\ queue = <<>>
    /\ ui.status = <<"Completado">>

\* C8: every progress signal emitted carries a percent within [0, 100].
InRange(p) == p[1] >= 0 /\ p[1] <= 100 * p[2]

C8_PercentInRange ==
    \A i \in 1..Len(w.emitted) :
        w.emitted[i].sig = "progress" => InRange(w.emitted[i].pct)

\* C9: no failed signal carries a colour-escape sequence.
C9_FailedIsClean ==
    \A i \in 1..Len(w.emitted) :
        w.emitted[i].sig = "failed" => ~HasEscape(w.emitted[i].text)

\* C10: clean_err returns, for every input; it returns a str without
\* escape sequence as it is; and it returns "Error: 403" for that text
\* wrapped in the colour sequences.
C10_CleanErr ==
    ce.pc \in {"once", "twice"} =>
        /\ ~ce.once.raised
        /\ (ce.msg.type = "str" /\ ~HasEscape(ce.msg.val)) => ce.once.val = ce.msg.val
        /\ ce.msg = PyStr(ErrColor403) => ce.once.val = Plain403

C10_Witness ==
    /\ ce.pc = "once"
    /\ ce.msg = PyStr(ErrColor403)
    /\ ce.once = Returned(Plain403)


EmptySel == [url |-> <<>>, title |-> <<>>]

\* C11: the Selection is empty when the window is built and changes only in
\* a step of on_use_current, which sets it to the page shown; navigation,
\* title changes, searches, folder choices, download requests, cancels and
\* the events of a job leave it as it is.
C11_SelectionOnlyByAdopt ==
    /\ sel = EmptySel
    /\ [][sel' # sel => (on_use_current
                         /\ sel' = [url |-> web.url, title |-> web.title])]_vars
    /\ [][(\/ \E url \in Urls : on_url_changed(url)
           \/ \E title \in Titles : on_title_changed(title)
           \/ \E text \in Queries : on_search(text)
           \/ \E d \in DirChoices : on_choose_dir(d)
           \/ \E kind \in Kinds : on_download(kind)
           \/ on_cancel
           \/ Deliveries
           \/ ThreadSteps) => sel' = sel]_vars

\* A video was adopted, the user browsed on to a search, and a download was
\* requested and has ended: the selection is still the adopted video.
C11_Witness ==
    /\ sel.url = WatchUrl
    /\ ~is_youtube_watch(web.url)
    /\ jobs = 1
    /\ w.pc = "returned"
    /\ ui.cancel_btn = FALSE


\* C12: the Selection url is empty or a watch-page url; every Downloader is
\* constructed with a url that satisfies is_youtube_watch; an adopt that is
\* refused and a download request that is refused (no watch-page url, or a
\* download in progress) change neither the Selection nor the job.
C12_WatchPageGuard ==
    /\ [](sel.url = <<>> \/ is_youtube_watch(sel.url))
    /\ [](jobs > 0 => is_youtube_watch(w.url))
    /\ [][(w'.id # w.id) => is_youtube_watch(w'.url)]_vars
    /\ [][(on_use_current /\ ~is_youtube_watch(web.url))
             => UNCHANGED <<sel, dlt, w, running, finishing, queue, jobs>>]_vars
    /\ [][\A kind \in Kinds :
             (on_download(kind) /\ ~download_accepted)
                => UNCHANGED <<sel, dlt, w, running, finishing, queue, jobs>>]_vars

\* A short-link video was adopted and downloaded; the view now shows a page
\* that is not a watch page, where a download is still accepted for the
\* selection and the adopt button is disabled.
C12_Witness ==
    /\ sel.url = ShortUrl
    /\ jobs = 1
    /\ w.url = ShortUrl
    /\ ~is_youtube_watch(web.url)
    /\ ~ui.use_current_btn


\* C13: every Downloader is constructed with the url the Selection holds when
\* the download is requested; a request made while the Selection is empty
\* constructs no Downloader.
C13_WorkerUrlIsSelection ==
    [][(w'.id # w.id) => (sel.url # <<>> /\ w'.url = sel.url)]_vars


IsPrefix(s, t) == Len(s) <= Len(t) /\ SubSeq(t, 1, Len(s)) = s

\* C14: the url, the output directory and the kind of a Downloader never
\* change after its construction, whatever the user adopts, browses to or
\* chooses as folder meanwhile; every call of the client is made with the
\* selector of that kind and every path done carries lies in that directory.
C14_RequestFixed ==
    /\ [][(w.id # 0 /\ w'.id = w.id)
             => (w'.url = w.url /\ w'.outdir = w.outdir /\ w'.kind = w.kind)]_vars
    /\ [](\A i \in 1..Len(w.calls) :
             w.calls[i] = IF w.kind = "audio" THEN AudioFormat
                          ELSE format_candidates[i])
    /\ [](\A i \in 1..Len(w.emitted) :
             w.emitted[i].sig = "done"
                => IsPrefix(w.outdir \o <<"/">>, w.emitted[i].text))

\* A video job was started for the watch page into the default folder; then
\* the user adopted the short link and chose the other folder; the first call
\* failed as format-unavailable and the second call returned: done carries a
\* path of the default folder.
C14_Witness ==
    /\ w.kind = "video"
    /\ w.url = WatchUrl
    /\ sel.url = ShortUrl
    /\ w.outdir = DefaultDir
    /\ download_dir = OtherDir
    /\ Len(w.calls) = 2
    /\ w.pc = "returned"
    /\ Last(w.emitted).sig = "done"
    /\ IsPrefix(DefaultDir, Last(w.emitted).text)


\* C15: no exception leaves run without a signal.  When mkdir raises, run
\* returns having emitted failed with the cleaned text and having made no
\* call of the client.  When a call of the client raises, for either kind,
\* either run emits failed and returns, or (video, retryable error,
\* candidates left) run makes the next call; a run that has returned has
\* emitted its outcome.
C15_NoEscape ==
    /\ [](w.pc = "returned" => Len(Outcomes(w)) = 1)
    /\ [][(w.pc = "start" /\ w'.id = w.id /\ w'.pc = "returned")
             => /\ w'.calls = <<>>
                /\ w'.results = <<>>
                /\ \E e \in MkdirErrors :
                      w'.emitted = <<Failed(clean_err(PyStr(e)).val)>>]_vars
    /\ [][(/\ w'.id = w.id
           /\ Len(w'.results) = Len(w.results) + 1
           /\ Last(w'.results) # PyNone)
             => \/ /\ w'.pc = "returned"
                   /\ Len(w'.emitted) = Len(w.emitted) + 1
                   /\ Last(w'.emitted).sig = "failed"
                \/ /\ w.kind = "video"
                   /\ Retryable(Last(w'.results).val)
                   /\ w.fmt < Len(format_candidates)
                   /\ w'.pc = "incall"
                   /\ w'.fmt = w.fmt + 1
                   /\ w'.emitted = w.emitted]_vars

\* mkdir raised in an audio job: failed was emitted and delivered, and the
\* client was never called.
C15_Witness ==
    /\ w.kind = "audio"
    /\ w.pc = "returned"
    /\ w.calls = <<>>
    /\ w.emitted = <<Failed(ErrMkdir)>>
    /\ queue = <<>>
    /\ w.id \notin running


\* C16: when the four calls of a video job all end with a retryable error,
\* the job has called the client four times with the candidates in their
\* declared order, has emitted failed with the cleaned text of the fourth
\* error as its only outcome, and has returned.
C16_Exhausted ==
    (/\ w.kind = "video"
     /\ Len(w.results) = Len(format_candidates)
     /\ AllRetryable(w.results))
    => /\ w.pc = "returned"
       /\ w.calls = format_candidates
       /\ Last(w.emitted) = Failed(clean_err(w.results[Len(format_candidates)]).val)
       /\ Len(Outcomes(w)) = 1

\* Three format-unavailable failures and a coloured 403 on the fourth
\* candidate: failed carries the 403 text without its colour sequences.
C16_Witness ==
    /\ w.kind = "video"
    /\ w.results = <<PyStr(ErrFormat), PyStr(ErrFormat), PyStr(ErrFormat),
                     PyStr(ErrColor403)>>
    /\ w.calls = format_candidates
    /\ w.pc = "returned"
    /\ Last(w.emitted) = Failed(Plain403)


\* C17: an audio job calls the client at most once, with the selector
\* "bestaudio/best"; when that call ends with an error, retryable for a
\* video job or not, the job has emitted failed with the cleaned text of
\* the error as its only outcome and has returned without a second call.
C17_AudioSingleCall ==
    w.kind = "audio" =>
        /\ Len(w.calls) <= 1
        /\ Len(w.results) <= Len(w.calls)
        /\ \A i \in 1..Len(w.calls) : w.calls[i] = AudioFormat
        /\ (w.results # <<>> /\ w.results[1] # PyNone)
             => /\ w.pc = "returned"
                /\ Len(w.calls) = 1
                /\ Last(w.emitted) = Failed(clean_err(w.results[1]).val)
                /\ Len(Outcomes(w)) = 1

\* The only call of an audio job ended with a coloured 403: failed carries
\* its text and no second call was made.
C17_Witness ==
    /\ w.kind = "audio"
    /\ w.results = <<PyStr(ErrColor403)>>
    /\ w.calls = <<AudioFormat>>
    /\ w.pc = "returned"
    /\ Last(w.emitted) = Failed(Plain403)


\* The file of the job's output directory with extension e.
Produced(wr, e) == wr.outdir \o <<"/", "title [id]", ".", e>>

\* C18: when the call of an audio job returns, whatever name the client
\* resolved and whichever of the files base.mp3, base.m4a, base.webm exist,
\* the job emits done with base.mp3 if it exists, else base.m4a if it
\* exists, else base.webm if it exists, else the name the client resolved.
C18_AudioOutput ==
    [][\A ext \in ClientExts, exists \in SUBSET DiskExts :
          (w.kind = "audio" /\ ClientReturns(ext, exists))
             => /\ w'.pc = "returned"
                /\ w'.emitted = Append(w.emitted,
                      Done(IF "mp3" \in exists THEN Produced(w, "mp3")
                           ELSE IF "m4a" \in exists THEN Produced(w, "m4a")
                           ELSE IF "webm" \in exists THEN Produced(w, "webm")
                           ELSE Produced(w, ext)))]_vars

\* An audio job has ended with done carrying the .m4a file.
C18_Witness ==
    /\ w.kind = "audio"
    /\ w.pc = "returned"
    /\ w.results = <<PyNone>>
    /\ Last(w.emitted) = Done(Produced(w, "m4a"))


\* C19: the flag of a Downloader is false at its construction and becomes
\* true only in a step of on_cancel taken while the thread of that very
\* Downloader is running; an on_cancel with no running thread changes
\* nothing; a job emits the cancellation failure only with its own flag set.
C19_CancelScoped ==
    /\ [][(w'.id # w.id) => ~w'.stop]_vars
    /\ [][(w'.id = w.id /\ ~w.stop /\ w'.stop)
             => (on_cancel /\ dlt = w.id /\ w.id \in running)]_vars
    /\ [][(on_cancel /\ ~(dlt # 0 /\ isRunning)) => UNCHANGED vars]_vars
    /\ [](\A i \in 1..Len(w.emitted) :
             w.emitted[i] = Failed(CancelMsg) => w.stop)

\* The first job was cancelled and its failure still waits in the queue;
\* the second job, whose flag was never set, has ended with done.
C19_Witness ==
    /\ w.id = 2
    /\ ~w.stop
    /\ w.pc = "returned"
    /\ Last(w.emitted).sig = "done"
    /\ \E i \in 1..Len(queue) : queue[i] = [job |-> 1, ev |-> Failed(CancelMsg)]


\* C20: whenever the thread of Main.dlt is running, the cancel button is
\* enabled, also when the finished signal of the previous Downloader is
\* delivered after the next one was started.
C20_CancelEnabledWhileRunning ==
    (dlt # 0 /\ isRunning) => ui.cancel_btn

=============================================================================
